---- MODULE Spec2Model ----
(***************************************************************************)
(* URL configuration of FeedbackFullStack.                                 *)
(*                                                                         *)
(* Two artifacts, never part of the same process:                          *)
(*   - the backend utility (getFrontendUrl, getBackendUrl, getCorsOrigins, *)
(*     logConfiguration), which reads process.env;                         *)
(*   - the frontend utility (getApiBaseUrl, getBackendBaseUrl, getApiUrl,  *)
(*     getSseUrl, logConfiguration), which reads import.meta.env and       *)
(*     window.location.host.                                               *)
(*                                                                         *)
(* Strings are TLA+ strings; an environment is a function from the names   *)
(* that are set to their string values, so an unset variable is a name     *)
(* outside the function's domain and an empty one maps to "".              *)
(***************************************************************************)
EXTENDS Integers, Sequences, FiniteSets, TLC

VARIABLES
    proc,           \* which artifact this behaviour is of: "server" or "client"
    processEnv,     \* process.env of the backend process
    importMetaEnv,  \* the string entries of import.meta.env of the frontend build
    PROD,           \* import.meta.env.PROD
    locationHost,   \* window.location.host
    called,         \* the function called last ("none" before any call)
    arg,            \* its argument (getApiUrl's endpoint), "" when it takes none
    ret,            \* the string it returned, "" when it returns no string
    origins,        \* the list getCorsOrigins returned, <<>> otherwise
    console         \* the lines written with console.log so far

vars == <<proc, processEnv, importMetaEnv, PROD, locationHost,
          called, arg, ret, origins, console>>

(***************************************************************************)
(* Bounds of the model.                                                    *)
(***************************************************************************)
\* endpoints passed to getApiUrl are all strings over EndpointChars up to this length
MaxEndpointLen == 2
\* logConfiguration is called at most this many times in a behaviour
MaxLogCalls == 1

(***************************************************************************)
(* String helpers: what the JavaScript string methods used by the code do. *)
(***************************************************************************)
\* s.startsWith(p)
StartsWith(s, p) ==
    /\ Len(p) <= Len(s)
    /\ SubSeq(s, 1, Len(p)) = p

\* s.endsWith(p); also what a regular expression /p$/ (p literal, no m flag) tests
EndsWith(s, p) ==
    /\ Len(p) <= Len(s)
    /\ SubSeq(s, Len(s) - Len(p) + 1, Len(s)) = p

\* s.includes(p)
Includes(s, p) ==
    \E i \in 1..(Len(s) - Len(p) + 1) : SubSeq(s, i, i + Len(p) - 1) = p

\* the decimal digits, Digit[d + 1] for digit d
Digit == <<"0", "1", "2", "3", "4", "5", "6", "7", "8", "9">>

\* String(n) for a natural number n, as a template literal `${n}` formats it
RECURSIVE NatToStr(_)
NatToStr(n) ==
    IF n < 10 THEN Digit[n + 1]
    ELSE NatToStr(n \div 10) \o Digit[(n % 10) + 1]

(***************************************************************************)
(* Environments.                                                           *)
(***************************************************************************)
\* the environment in which nothing is set
EmptyEnv == [k \in {} |-> ""]

\* a variable is either unset or set to one of vals
Setting(k, vals) == {EmptyEnv} \cup {(k :> v) : v \in vals}

\* JavaScript truthiness of env[k]: set, and not the empty string
Truthy(env, k) == k \in DOMAIN env /\ env[k] # ""

\* env[k] || dflt
OrElse(env, k, dflt) == IF Truthy(env, k) THEN env[k] ELSE dflt

(***************************************************************************)
(* Backend: src/unnamed/part_000                                           *)
(***************************************************************************)
DefaultServiceName == "whatsapp-feedback-fullstack"
DefaultPort == 8080

\* process.env.NODE_ENV || 'development'
NodeEnv(env) == OrElse(env, "NODE_ENV", "development")

\* getFrontendUrl with the mode tested before the explicit override
getFrontendUrl_ModeFirst(env) ==
    IF NodeEnv(env) # "production" THEN "http://localhost:5173"
    ELSE IF Truthy(env, "FRONTEND_URL") THEN env["FRONTEND_URL"]
    ELSE IF Truthy(env, "RENDER") THEN
        "https://" \o OrElse(env, "RENDER_SERVICE_NAME", DefaultServiceName)
                   \o ".onrender.com"
    ELSE IF Truthy(env, "RENDER_EXTERNAL_URL") THEN env["RENDER_EXTERNAL_URL"]
    ELSE "https://whatsapp-feedback-fullstack.onrender.com"

\* getFrontendUrl with RENDER_EXTERNAL_URL tested before the RENDER flag
getFrontendUrl_ExternalFirst(env) ==
    IF Truthy(env, "FRONTEND_URL") THEN env["FRONTEND_URL"]
    ELSE IF NodeEnv(env) = "production" THEN
        IF Truthy(env, "RENDER_EXTERNAL_URL") THEN env["RENDER_EXTERNAL_URL"]
        ELSE IF Truthy(env, "RENDER") THEN
            "https://" \o OrElse(env, "RENDER_SERVICE_NAME", DefaultServiceName)
                       \o ".onrender.com"
        ELSE "https://whatsapp-feedback-fullstack.onrender.com"
    ELSE "http://localhost:5173"

getFrontendUrl(env) ==
    IF Truthy(env, "FRONTEND_URL") THEN env["FRONTEND_URL"]
    ELSE IF NodeEnv(env) = "production" THEN
        IF Truthy(env, "RENDER") THEN
            "https://" \o OrElse(env, "RENDER_SERVICE_NAME", DefaultServiceName)
                       \o ".onrender.com"
        ELSE IF Truthy(env, "RENDER_EXTERNAL_URL") THEN env["RENDER_EXTERNAL_URL"]
        ELSE "https://whatsapp-feedback-fullstack.onrender.com"
    ELSE "http://localhost:5173"

\* getBackendUrl with the production branch of getFrontendUrl copied into it:
\* the RENDER flag decides before RENDER_EXTERNAL_URL is looked at
getBackendUrl_RenderFirst(env) ==
    LET port == OrElse(env, "PORT", NatToStr(DefaultPort))
        host == OrElse(env, "HOST", "localhost")
        service == "https://" \o OrElse(env, "RENDER_SERVICE_NAME", DefaultServiceName)
                              \o ".onrender.com"
    IN  IF NodeEnv(env) = "production" THEN
            IF Truthy(env, "RENDER") THEN service
            ELSE IF Truthy(env, "RENDER_EXTERNAL_URL") THEN env["RENDER_EXTERNAL_URL"]
            ELSE service
        ELSE "http://" \o host \o ":" \o port

getBackendUrl(env) ==
    LET port == OrElse(env, "PORT", NatToStr(DefaultPort))
        host == OrElse(env, "HOST", "localhost")
    IN  IF NodeEnv(env) = "production" THEN
            IF Truthy(env, "RENDER_EXTERNAL_URL") THEN env["RENDER_EXTERNAL_URL"]
            ELSE "https://" \o OrElse(env, "RENDER_SERVICE_NAME", DefaultServiceName)
                            \o ".onrender.com"
        ELSE "http://" \o host \o ":" \o port

\* An entry of the origin list: an exact string or a regular expression,
\* the latter named by its source text.
Str(s) == [kind |-> "string", v |-> s]
Re(s)  == [kind |-> "regex", v |-> s]

\* Boolean(entry): a string is truthy unless empty, a RegExp object always is
Boolean(e) == e.kind = "regex" \/ e.v # ""

\* list.filter(pred)
RECURSIVE Filter(_)
Filter(list) ==
    IF list = <<>> THEN <<>>
    ELSE IF Boolean(Head(list)) THEN <<Head(list)>> \o Filter(Tail(list))
    ELSE Filter(Tail(list))

\* the array literal of getCorsOrigins
OriginList(frontendUrl) ==
    << Str(frontendUrl),
       Str("http://localhost:5173"),
       Str("http://localhost:5174"),
       Str("http://localhost:3000"),
       Str("http://localhost:5175"),
       Re("^http:\\/\\/localhost:\\d+$"),
       Re("^https:\\/\\/.*\\.onrender\\.com$"),
       Re("^https:\\/\\/.*\\.railway\\.app$"),
       Re("^https:\\/\\/.*\\.vercel\\.app$"),
       Re("^https:\\/\\/.*\\.netlify\\.app$") >>

\* getCorsOrigins pushing '*' in every mode but production
getCorsOrigins_NonProduction(env) ==
    LET list == OriginList(getFrontendUrl(env))
    IN  Filter(IF NodeEnv(env) # "production" THEN list \o <<Str("*")>> ELSE list)

\* getCorsOrigins testing NODE_ENV itself, without the 'development' default
getCorsOrigins_NoDefaultMode(env) ==
    LET list == OriginList(getFrontendUrl(env))
        dev == "NODE_ENV" \in DOMAIN env /\ env["NODE_ENV"] = "development"
    IN  Filter(IF dev THEN list \o <<Str("*")>> ELSE list)

getCorsOrigins(env) ==
    LET frontendUrl == getFrontendUrl(env)
        list == OriginList(frontendUrl)
        pushed == IF NodeEnv(env) = "development" THEN list \o <<Str("*")>>
                  ELSE list
    IN  Filter(pushed)

\* the lines logConfiguration writes (pictographs and the rule's box-drawing
\* characters are written in ASCII)
Rule == "----------------------------------------"

ServerLogLines(env) ==
    << "URL Configuration:",
       Rule,
       "Environment: " \o NodeEnv(env),
       "Backend URL: " \o getBackendUrl(env),
       "Frontend URL: " \o getFrontendUrl(env),
       "CORS Origins: " \o NatToStr(Len(getCorsOrigins(env))) \o " configured",
       Rule >>

(***************************************************************************)
(* Frontend: src/frontend/src/config/urlConfig.ts                          *)
(***************************************************************************)
getApiBaseUrl(env, prod, host) ==
    IF Truthy(env, "VITE_API_BASE_URL") THEN env["VITE_API_BASE_URL"]
    ELSE IF prod THEN
        IF Includes(host, "onrender.com") THEN "https://" \o host \o "/api"
        ELSE IF Includes(host, "railway.app") THEN "https://" \o host \o "/api"
        ELSE IF Includes(host, "vercel.app") THEN "https://" \o host \o "/api"
        ELSE "/api"
    ELSE "http://localhost:" \o OrElse(env, "VITE_BACKEND_PORT", "8080") \o "/api"

\* the replacement without the anchor, apiUrl.replace('/api', ''): the first
\* occurrence goes, wherever it is
RECURSIVE StripFirstApi(_)
StripFirstApi(apiUrl) ==
    IF apiUrl = "" THEN ""
    ELSE IF StartsWith(apiUrl, "/api") THEN SubSeq(apiUrl, 5, Len(apiUrl))
    ELSE Head(apiUrl) \o StripFirstApi(Tail(apiUrl))

\* apiUrl.replace(/\/api$/, ''): the only place the pattern can match is the
\* end of the string, and the match is replaced by nothing
StripApiSuffix(apiUrl) ==
    IF EndsWith(apiUrl, "/api") THEN SubSeq(apiUrl, 1, Len(apiUrl) - 4)
    ELSE apiUrl

getBackendBaseUrl(env, prod, host) ==
    StripApiSuffix(getApiBaseUrl(env, prod, host))

\* getApiUrl prepending the slash whatever the endpoint starts with
getApiUrl_AlwaysPrepend(env, prod, host, endpoint) ==
    getApiBaseUrl(env, prod, host) \o "/" \o endpoint

getApiUrl(env, prod, host, endpoint) ==
    LET baseUrl == getApiBaseUrl(env, prod, host)
        cleanEndpoint == IF StartsWith(endpoint, "/") THEN endpoint
                         ELSE "/" \o endpoint
    IN  baseUrl \o cleanEndpoint

getSseUrl(env, prod, host) == getApiUrl(env, prod, host, "/events")

\* import.meta.env.PROD, and import.meta.env.DEV, which the build tool sets
\* to its opposite
isProduction(prod) == prod
isDevelopment(prod) == ~prod

ClientLogLines(env, prod, host) ==
    IF isDevelopment(prod) THEN
        << "Frontend URL Configuration:",
           Rule,
           "Environment: " \o env["MODE"],
           "API Base URL: " \o getApiBaseUrl(env, prod, host),
           "Backend Base URL: " \o getBackendBaseUrl(env, prod, host),
           "SSE URL: " \o getSseUrl(env, prod, host),
           Rule >>
    ELSE <<>>

(***************************************************************************)
(* The inputs.                                                             *)
(***************************************************************************)
ServerEnvs ==
    { a @@ b @@ c @@ d @@ e @@ f @@ g :
        a \in Setting("FRONTEND_URL", {"", "https://app.example.com", "*"}),
        b \in Setting("NODE_ENV", {"", "development", "production", "test"}),
        c \in Setting("RENDER", {"", "true"}),
        d \in Setting("RENDER_SERVICE_NAME", {"", "foo"}),
        e \in Setting("RENDER_EXTERNAL_URL", {"", "https://ext.example.com"}),
        f \in Setting("PORT", {"", "3000", "abc"}),
        g \in Setting("HOST", {"", "0.0.0.0"}) }

\* a build's mode: PROD is true of every build but the development server's,
\* whatever the name of the mode
BuildModes ==
    { <<FALSE, "development">>, <<TRUE, "production">>, <<TRUE, "staging">> }

ClientEnvs(mode) ==
    { ("MODE" :> mode) @@ a @@ b :
        a \in Setting("VITE_API_BASE_URL",
                      {"", "https://x.onrender.com/api",
                       "https://x.onrender.com/api/legacy",
                       "https://x.onrender.com/API",
                       "http://api.example.com/"}),
        b \in Setting("VITE_BACKEND_PORT", {"", "3001", "abc"}) }

Hosts ==
    { "localhost:5173", "example.org", "myapp.onrender.com",
      "onrender.com.example.org", "app.railway.app", "my.vercel.app.evil.io",
      "shop.vercel.app" }

EndpointChars == {"/", "e"}

\* every string over EndpointChars of length at most n
RECURSIVE StringsUpTo(_)
StringsUpTo(n) ==
    IF n = 0 THEN {""}
    ELSE LET shorter == StringsUpTo(n - 1)
         IN  shorter \cup {s \o c : s \in shorter, c \in EndpointChars}

Endpoints == StringsUpTo(MaxEndpointLen) \cup {"feedback", "/feedback"}

InitServer ==
    /\ proc = "server"
    /\ processEnv \in ServerEnvs
    /\ importMetaEnv = EmptyEnv
    /\ PROD = FALSE
    /\ locationHost = ""

InitClient ==
    /\ proc = "client"
    /\ processEnv = EmptyEnv
    /\ \E m \in BuildModes :
          /\ PROD = m[1]
          /\ importMetaEnv \in ClientEnvs(m[2])
    /\ locationHost \in Hosts

Init ==
    /\ InitServer \/ InitClient
    /\ called = "none"
    /\ arg = ""
    /\ ret = ""
    /\ origins = <<>>
    /\ console = <<>>

inputs == <<proc, processEnv, importMetaEnv, PROD, locationHost>>

\* a call returns: what it was, what it was given and what it gave back
Returns(name, a, r, o) ==
    /\ called' = name
    /\ arg' = a
    /\ ret' = r
    /\ origins' = o

(***************************************************************************)
(* The calls, one action per exported function.                            *)
(***************************************************************************)
CallGetFrontendUrl ==
    /\ proc = "server"
    /\ Returns("getFrontendUrl", "", getFrontendUrl(processEnv), <<>>)
    /\ UNCHANGED <<inputs, console>>

CallGetBackendUrl ==
    /\ proc = "server"
    /\ Returns("getBackendUrl", "", getBackendUrl(processEnv), <<>>)
    /\ UNCHANGED <<inputs, console>>

CallGetCorsOrigins ==
    /\ proc = "server"
    /\ Returns("getCorsOrigins", "", "", getCorsOrigins(processEnv))
    /\ UNCHANGED <<inputs, console>>

CallServerLogConfiguration ==
    /\ proc = "server"
    /\ Len(console) < MaxLogCalls * Len(ServerLogLines(processEnv))
    /\ console' = console \o ServerLogLines(processEnv)
    /\ Returns("logConfiguration", "", "", <<>>)
    /\ UNCHANGED inputs

CallGetApiBaseUrl ==
    /\ proc = "client"
    /\ Returns("getApiBaseUrl", "",
               getApiBaseUrl(importMetaEnv, PROD, locationHost), <<>>)
    /\ UNCHANGED <<inputs, console>>

CallGetBackendBaseUrl ==
    /\ proc = "client"
    /\ Returns("getBackendBaseUrl", "",
               getBackendBaseUrl(importMetaEnv, PROD, locationHost), <<>>)
    /\ UNCHANGED <<inputs, console>>

CallGetApiUrl ==
    /\ proc = "client"
    /\ \E endpoint \in Endpoints :
          Returns("getApiUrl", endpoint,
                  getApiUrl(importMetaEnv, PROD, locationHost, endpoint), <<>>)
    /\ UNCHANGED <<inputs, console>>

CallGetSseUrl ==
    /\ proc = "client"
    /\ Returns("getSseUrl", "",
               getSseUrl(importMetaEnv, PROD, locationHost), <<>>)
    /\ UNCHANGED <<inputs, console>>

\* main.tsx calls it once at start-up; any module may call it again
CallClientLogConfiguration ==
    /\ proc = "client"
    /\ Len(console) < MaxLogCalls * 7
    /\ console' = console \o ClientLogLines(importMetaEnv, PROD, locationHost)
    /\ Returns("logConfiguration", "", "", <<>>)
    /\ UNCHANGED inputs

Next ==
    \/ CallGetFrontendUrl
    \/ CallGetBackendUrl
    \/ CallGetCorsOrigins
    \/ CallServerLogConfiguration
    \/ CallGetApiBaseUrl
    \/ CallGetBackendBaseUrl
    \/ CallGetApiUrl
    \/ CallGetSseUrl
    \/ CallClientLogConfiguration

Spec == Init /\ [][Next]_vars

(***************************************************************************)
(* The claims.  In what follows a variable is "set" when JavaScript reads  *)
(* it as true, that is, when it is in the environment with a non-empty     *)
(* value; unset and empty are read alike by every test in the code.        *)
(***************************************************************************)
\* the elements of a list
Range(list) == {list[i] : i \in 1..Len(list)}

HasWildcard(list) == Str("*") \in Range(list)

\* NODE_ENV is set to 'production'
IsProductionMode(env) == "NODE_ENV" \in DOMAIN env /\ env["NODE_ENV"] = "production"

\* NODE_ENV is unset, empty or 'development'
IsDevelopmentMode(env) ==
    \/ "NODE_ENV" \notin DOMAIN env
    \/ env["NODE_ENV"] \in {"", "development"}

\* s is a decimal number
IsNumeric(s) ==
    /\ s # ""
    /\ \A i \in 1..Len(s) : SubSeq(s, i, i) \in Range(Digit)

\* env without the variables in names
Without(env, names) == [k \in (DOMAIN env) \ names |-> env[k]]

\* the URL of a service on the hosting platform
ServiceUrl(env) ==
    "https://"
        \o (IF Truthy(env, "RENDER_SERVICE_NAME") THEN env["RENDER_SERVICE_NAME"]
            ELSE "whatsapp-feedback-fullstack")
        \o ".onrender.com"

\* C1: with FRONTEND_URL set to a non-empty S, getFrontendUrl() returns S
\* whatever else is set; with VITE_API_BASE_URL set to a non-empty S,
\* getApiBaseUrl() returns S whatever the build mode, port and host.
C1_ExplicitOverrideWins ==
    /\ (called = "getFrontendUrl" /\ Truthy(processEnv, "FRONTEND_URL"))
          => ret = processEnv["FRONTEND_URL"]
    /\ (called = "getApiBaseUrl" /\ Truthy(importMetaEnv, "VITE_API_BASE_URL"))
          => ret = importMetaEnv["VITE_API_BASE_URL"]

\* a production build on a platform host with a port set, where the override
\* is what getApiBaseUrl returned
C1_Witness ==
    /\ called = "getApiBaseUrl"
    /\ PROD
    /\ locationHost = "myapp.onrender.com"
    /\ Truthy(importMetaEnv, "VITE_BACKEND_PORT")
    /\ Truthy(importMetaEnv, "VITE_API_BASE_URL")
    /\ ret = "https://x.onrender.com/api/legacy"

\* C2, as stated: '*' is in the list getCorsOrigins() returns exactly when
\* NODE_ENV is anything but 'production' (unset, 'test', 'staging', ...).
C2_WildcardIffNotProduction ==
    called = "getCorsOrigins"
        => (HasWildcard(origins) <=> ~IsProductionMode(processEnv))

\* C2, amended: the last entry of the list is '*' exactly when NODE_ENV is
\* unset, empty or 'development'; in every other mode ('test', 'production',
\* ...) nothing is appended and the list contains '*' only if
\* getFrontendUrl() itself returns '*'.
C2_WildcardIffDevelopment ==
    called = "getCorsOrigins" =>
        /\ (origins[Len(origins)] = Str("*")) <=> IsDevelopmentMode(processEnv)
        /\ IsDevelopmentMode(processEnv) => HasWildcard(origins)
        /\ ~IsDevelopmentMode(processEnv)
              => /\ Len(origins) = 10
                 /\ HasWildcard(origins) <=> (getFrontendUrl(processEnv) = "*")

\* NODE_ENV is 'test' and the list came back without '*'
C2_Witness ==
    /\ called = "getCorsOrigins"
    /\ "NODE_ENV" \in DOMAIN processEnv
    /\ processEnv["NODE_ENV"] = "test"
    /\ ~HasWildcard(origins)

\* C3: the list getCorsOrigins() returns always has the four fixed localhost
\* origins and the patterns for onrender.com, railway.app and vercel.app;
\* with NODE_ENV unset or 'development' it has '*' too; and no entry is the
\* empty string, FRONTEND_URL or RENDER_EXTERNAL_URL set to "" included.
C3_FixedOriginsAlwaysPresent ==
    called = "getCorsOrigins" =>
        /\ \A s \in {"http://localhost:5173", "http://localhost:5174",
                     "http://localhost:3000", "http://localhost:5175"} :
              Str(s) \in Range(origins)
        /\ \A r \in {"^https:\\/\\/.*\\.onrender\\.com$",
                     "^https:\\/\\/.*\\.railway\\.app$",
                     "^https:\\/\\/.*\\.vercel\\.app$"} :
              Re(r) \in Range(origins)
        /\ ("NODE_ENV" \notin DOMAIN processEnv
               \/ processEnv["NODE_ENV"] = "development")
              => HasWildcard(origins)
        /\ \A i \in 1..Len(origins) :
              origins[i].kind = "string" => origins[i].v # ""

\* FRONTEND_URL and RENDER_EXTERNAL_URL are both set to "", in production,
\* and the list came back
C3_Witness ==
    /\ called = "getCorsOrigins"
    /\ "FRONTEND_URL" \in DOMAIN processEnv
    /\ processEnv["FRONTEND_URL"] = ""
    /\ "RENDER_EXTERNAL_URL" \in DOMAIN processEnv
    /\ processEnv["RENDER_EXTERNAL_URL"] = ""
    /\ IsProductionMode(processEnv)
    /\ Len(origins) = 10

\* what C4 says getFrontendUrl() returns without an override
C4_Expected(env) ==
    IF ~IsProductionMode(env) THEN "http://localhost:5173"
    ELSE IF Truthy(env, "RENDER") THEN ServiceUrl(env)
    ELSE IF Truthy(env, "RENDER_EXTERNAL_URL") THEN env["RENDER_EXTERNAL_URL"]
    ELSE "https://whatsapp-feedback-fullstack.onrender.com"

C5_PlatformHostBySuffix ==
    (called = "getApiBaseUrl" /\ PROD /\ ~Truthy(importMetaEnv, "VITE_API_BASE_URL"))
        => ret = IF \E suffix \in {"onrender.com", "railway.app", "vercel.app"} :
                       EndsWith(locationHost, suffix)
                 THEN "https://" \o locationHost \o "/api"
                 ELSE "/api"

\* C6: a port override that is not a number is treated as absent:
\* getBackendUrl() (not in production) returns http://{host}:8080 and
\* getApiBaseUrl() (development build, no override) http://localhost:8080/api.
C6_MalformedPortIgnored ==
    /\ ( /\ called = "getBackendUrl"
         /\ ~IsProductionMode(processEnv)
         /\ "PORT" \in DOMAIN processEnv
         /\ ~IsNumeric(processEnv["PORT"]) )
          => ret = getBackendUrl(Without(processEnv, {"PORT"}))
    /\ ( /\ called = "getApiBaseUrl"
         /\ ~PROD
         /\ ~Truthy(importMetaEnv, "VITE_API_BASE_URL")
         /\ "VITE_BACKEND_PORT" \in DOMAIN importMetaEnv
         /\ ~IsNumeric(importMetaEnv["VITE_BACKEND_PORT"]) )
          => ret = "http://localhost:8080/api"

\* what C7 says getBackendUrl() returns
C7_Expected(env) ==
    IF ~IsProductionMode(env) THEN
        "http://" \o (IF Truthy(env, "HOST") THEN env["HOST"] ELSE "localhost")
                  \o ":" \o (IF Truthy(env, "PORT") THEN env["PORT"] ELSE "8080")
    ELSE IF Truthy(env, "RENDER_EXTERNAL_URL") THEN env["RENDER_EXTERNAL_URL"]
    ELSE ServiceUrl(env)

\* C7: getBackendUrl() is http://{HOST or localhost}:{PORT or 8080} unless
\* NODE_ENV is 'production', and in production RENDER_EXTERNAL_URL if that
\* is non-empty, else the service URL; setting, changing or unsetting
\* FRONTEND_URL or RENDER never changes it.
C7_BackendUrlInputs ==
    called = "getBackendUrl" =>
        /\ ret = C7_Expected(processEnv)
        /\ \A f \in Setting("FRONTEND_URL", {"", "https://other.example.com"}),
              r \in Setting("RENDER", {"", "true"}) :
              getBackendUrl(f @@ r @@ Without(processEnv, {"FRONTEND_URL", "RENDER"}))
                 = ret

\* production with FRONTEND_URL, RENDER and RENDER_EXTERNAL_URL all set:
\* the external URL came back
C7_Witness ==
    /\ called = "getBackendUrl"
    /\ IsProductionMode(processEnv)
    /\ Truthy(processEnv, "FRONTEND_URL")
    /\ Truthy(processEnv, "RENDER")
    /\ Truthy(processEnv, "RENDER_SERVICE_NAME")
    /\ ret = "https://ext.example.com"

\* C8: for an endpoint p that does not start with '/', getApiUrl(p) and
\* getApiUrl('/' + p) are the same string: the base URL, one '/', then p.
C8_OneSlashAtJoin ==
    (called = "getApiUrl" /\ ~StartsWith(arg, "/")) =>
        /\ ret = getApiBaseUrl(importMetaEnv, PROD, locationHost) \o "/" \o arg
        /\ getApiUrl(importMetaEnv, PROD, locationHost, "/" \o arg) = ret

\* getApiUrl('feedback') in a default development build
C8_Witness ==
    /\ called = "getApiUrl"
    /\ arg = "feedback"
    /\ ret = "http://localhost:8080/api/feedback"

\* C9: getBackendBaseUrl() is getApiBaseUrl() less its last four characters
\* when that value ends with '/api' (case-sensitive), and is that value
\* unchanged otherwise, '/api' in mid-string included.
C9_StripsOnlyTrailingApi ==
    called = "getBackendBaseUrl" =>
        LET apiUrl == getApiBaseUrl(importMetaEnv, PROD, locationHost)
        IN  IF EndsWith(apiUrl, "/api")
            THEN /\ Len(ret) = Len(apiUrl) - 4
                 /\ ret \o "/api" = apiUrl
            ELSE ret = apiUrl

\* the API base URL is https://x.onrender.com/api/legacy and came back whole
C9_Witness ==
    /\ called = "getBackendBaseUrl"
    /\ getApiBaseUrl(importMetaEnv, PROD, locationHost)
          = "https://x.onrender.com/api/legacy"
    /\ ret = "https://x.onrender.com/api/legacy"

\* C10: in the default development environment (NODE_ENV unset or
\* 'development', no FRONTEND_URL) the list getCorsOrigins() returns has 10
\* entries, and logConfiguration() reports 'CORS Origins: 10 configured'.
C10_TenOriginsInDevelopment ==
    LET default == /\ proc = "server"
                   /\ "FRONTEND_URL" \notin DOMAIN processEnv
                   /\ \/ "NODE_ENV" \notin DOMAIN processEnv
                      \/ processEnv["NODE_ENV"] = "development"
    IN  /\ (default /\ called = "getCorsOrigins") => Len(origins) = 10
        /\ (default /\ called = "logConfiguration")
              => "CORS Origins: 10 configured" \in Range(console)
====
